---- MODULE Spec2Model ----
(***************************************************************************)
(* Entitlement engine of STREFEX: the plan catalog and the account-type    *)
(* limit overrides of services/stripeService.js and the subscription store *)
(* of services/featureFlags.js (state, transitions, entitlement queries).  *)
(***************************************************************************)
EXTENDS Integers, Sequences, FiniteSets, TLC

\* ------------------------------------------------------------------ bounds
\* Latest instant (in days since the start of the run) the clock reaches.
MaxNowDays == 31
\* Latest trial end (in days) a transition may produce in a checked run.
MaxTrialEndDays == 61
\* Largest currentCount handed to withinLimit.
MaxCount == 3
\* Largest requiredTier handed to hasTier.
MaxRequiredTier == 4
\* The most loadActiveSubscriptions calls started in one run.
MaxLoads == 2

\* ------------------------------------------------------------ JS values
\* A JavaScript value as the queries return it: boolean, finite number,
\* Infinity or undefined.
JsBool(b) == [kind |-> "boolean", b |-> b, n |-> 0]
JsNum(n) == [kind |-> "number", b |-> FALSE, n |-> n]
JsInfinity == [kind |-> "infinity", b |-> FALSE, n |-> 0]
JsUndefined == [kind |-> "undefined", b |-> FALSE, n |-> 0]

\* a ?? b
Nullish(a, b) == IF a = JsUndefined THEN b ELSE a

JsLess_Le(count, max) ==
  CASE max.kind = "infinity" -> TRUE
    [] max.kind = "number" -> count <= max.n
    [] max.kind = "boolean" -> count <= (IF max.b THEN 1 ELSE 0)
    [] OTHER -> FALSE

\* currentCount < max for a finite currentCount and a numeric max
JsLess(count, max) ==
  CASE max.kind = "infinity" -> TRUE
    [] max.kind = "number" -> count < max.n
    [] max.kind = "boolean" -> count < (IF max.b THEN 1 ELSE 0)
    [] OTHER -> FALSE

\* obj[key] of a plain object: undefined when the key is absent.  The keys
\* looked up are the names the application passes (limit and feature names),
\* none of which is a member of Object.prototype.
Get(obj, key) == IF key \in DOMAIN obj THEN obj[key] ELSE JsUndefined

Spread_BaseWins(base, patch) ==
  [k \in (DOMAIN base) \cup (DOMAIN patch) |->
     IF k \in DOMAIN base THEN base[k] ELSE patch[k]]

\* { ...base, ...patch }
Spread(base, patch) ==
  [k \in (DOMAIN base) \cup (DOMAIN patch) |->
     IF k \in DOMAIN patch THEN patch[k] ELSE base[k]]

EmptyObject == [k \in {} |-> JsUndefined]

\* ------------------------------------------------------------ stripeService
TIERS == [START |-> 0, BASIC |-> 1, STANDARD |-> 2, PREMIUM |-> 3, ENTERPRISE |-> 4]

\* The boolean flags of a plan's limits, as the set of keys that are true.
FlagKeys ==
  {"basicDashboard", "companyProfile", "basicAnalytics", "advancedReports",
   "customIntegrations", "auditManagement", "costManagement",
   "productionManagement", "productionStandard", "enterpriseManagement",
   "teamManagement", "messenger", "profileContacts", "aiInsights",
   "erpIntegrations", "procurement", "contractManagement", "spendAnalysis",
   "complianceEsg", "templateLibrary", "auditLogs", "emailSupport",
   "prioritySupport", "multipleIndustries", "executiveSummary",
   "projectAuditSchedule"}

StartFlags == {"basicDashboard", "companyProfile"}
BasicFlags == StartFlags \cup
  {"basicAnalytics", "teamManagement", "emailSupport", "multipleIndustries"}
StandardFlags == BasicFlags \cup
  {"advancedReports", "prioritySupport", "executiveSummary"}
PremiumFlags == StandardFlags \cup
  {"customIntegrations", "auditManagement", "costManagement",
   "productionManagement", "productionStandard", "messenger",
   "profileContacts", "projectAuditSchedule"}
EnterpriseFlags == FlagKeys

Flags(trueKeys) == [k \in FlagKeys |-> JsBool(k \in trueKeys)]

PLANS ==
  << [id |-> "start", tier |-> TIERS.START, sellerOnly |-> TRUE,
      limits |-> Spread(Flags(StartFlags),
        [maxProjects |-> JsNum(3), maxUsers |-> JsNum(1), maxAssets |-> JsNum(10),
         maxStorageGB |-> JsNum(1), maxIndustries |-> JsNum(1),
         maxCategories |-> JsNum(1), maxServiceCategories |-> JsNum(1)])],
     [id |-> "basic", tier |-> TIERS.BASIC, sellerOnly |-> FALSE,
      limits |-> Spread(Flags(BasicFlags),
        [maxProjects |-> JsNum(10), maxUsers |-> JsNum(5), maxAssets |-> JsNum(50),
         maxStorageGB |-> JsNum(5), maxIndustries |-> JsInfinity,
         maxCategories |-> JsInfinity, maxServiceCategories |-> JsInfinity])],
     [id |-> "standard", tier |-> TIERS.STANDARD, sellerOnly |-> FALSE,
      limits |-> Spread(Flags(StandardFlags),
        [maxProjects |-> JsNum(50), maxUsers |-> JsNum(25), maxAssets |-> JsNum(500),
         maxStorageGB |-> JsNum(50), maxIndustries |-> JsInfinity,
         maxCategories |-> JsInfinity, maxServiceCategories |-> JsInfinity])],
     [id |-> "premium", tier |-> TIERS.PREMIUM, sellerOnly |-> FALSE,
      limits |-> Spread(Flags(PremiumFlags),
        [maxProjects |-> JsInfinity, maxUsers |-> JsInfinity, maxAssets |-> JsInfinity,
         maxStorageGB |-> JsNum(100), storagePerUser |-> JsBool(TRUE),
         maxIndustries |-> JsInfinity, maxCategories |-> JsInfinity,
         maxServiceCategories |-> JsInfinity])],
     [id |-> "enterprise", tier |-> TIERS.ENTERPRISE, sellerOnly |-> FALSE,
      limits |-> Spread(Flags(EnterpriseFlags),
        [maxProjects |-> JsInfinity, maxUsers |-> JsInfinity, maxAssets |-> JsInfinity,
         maxStorageGB |-> JsNum(500), storagePerUser |-> JsBool(TRUE),
         maxIndustries |-> JsInfinity, maxCategories |-> JsInfinity,
         maxServiceCategories |-> JsInfinity])] >>

BUYER_LIMIT_OVERRIDES ==
  [basic |-> [maxIndustries |-> JsNum(1), maxCategories |-> JsNum(1),
              multipleIndustries |-> JsBool(FALSE)],
   standard |-> [maxIndustries |-> JsNum(3), maxCategories |-> JsNum(3),
                 executiveSummary |-> JsBool(TRUE)],
   premium |-> EmptyObject,
   enterprise |-> EmptyObject]

SERVICE_PROVIDER_LIMIT_OVERRIDES ==
  [start |-> [maxIndustries |-> JsNum(0), maxCategories |-> JsNum(0),
              maxServiceCategories |-> JsNum(1),
              multipleIndustries |-> JsBool(FALSE),
              executiveSummary |-> JsBool(FALSE)],
   basic |-> [maxIndustries |-> JsNum(0), maxCategories |-> JsNum(0),
              maxServiceCategories |-> JsInfinity,
              executiveSummary |-> JsBool(FALSE)],
   standard |-> [maxIndustries |-> JsNum(0), maxCategories |-> JsNum(0),
                 maxServiceCategories |-> JsInfinity,
                 executiveSummary |-> JsBool(FALSE)],
   premium |-> [maxIndustries |-> JsNum(0), maxCategories |-> JsNum(0),
                maxServiceCategories |-> JsInfinity],
   enterprise |-> [maxIndustries |-> JsNum(0), maxCategories |-> JsNum(0),
                   maxServiceCategories |-> JsInfinity]]

\* PLANS.find((p) => p.id === planId) || PLANS[0]
getPlanById(id) ==
  IF \E i \in 1..Len(PLANS) : PLANS[i].id = id
    THEN PLANS[CHOOSE i \in 1..Len(PLANS) :
                 /\ PLANS[i].id = id
                 /\ \A j \in 1..(i - 1) : PLANS[j].id # id]
    ELSE PLANS[1]

PatchFor_SkipsBasic(table, id) ==
  IF id \in DOMAIN table /\ id # "basic" THEN table[id] ELSE EmptyObject

\* TABLE[planId] || {}
PatchFor(table, id) == IF id \in DOMAIN table THEN table[id] ELSE EmptyObject

getEffectiveLimits_SellerKeepsBase(id, acct) ==
  LET base == getPlanById(id).limits IN
  IF acct = "buyer"
    THEN Spread(base, PatchFor(BUYER_LIMIT_OVERRIDES, id))
  ELSE IF acct = "service_provider"
    THEN Spread(Spread(base, PatchFor(SERVICE_PROVIDER_LIMIT_OVERRIDES, id)),
                [executiveSummary |-> JsBool(FALSE)])
  ELSE base

getEffectiveLimits(id, acct) ==
  LET base == getPlanById(id).limits IN
  IF acct = "buyer"
    THEN Spread(base, PatchFor(BUYER_LIMIT_OVERRIDES, id))
  ELSE IF acct = "service_provider"
    THEN Spread(Spread(base, PatchFor(SERVICE_PROVIDER_LIMIT_OVERRIDES, id)),
                [executiveSummary |-> JsBool(FALSE)])
  ELSE Spread(base, [executiveSummary |-> JsBool(FALSE)])

getPlansForAccountType_All(acct) == PLANS

\* PLANS.filter((p) => !p.sellerOnly) for buyers, PLANS for everyone else
getPlansForAccountType(acct) ==
  IF acct = "buyer"
    THEN SelectSeq(PLANS, LAMBDA p : ~p.sellerOnly)
    ELSE PLANS

getTierLevel_FourTiers(id) ==
  IF getPlanById(id).tier > 3 THEN 3 ELSE getPlanById(id).tier

\* plan.tier ?? TIERS.START: every plan of the catalog has a tier
getTierLevel(id) == getPlanById(id).tier

BUYER_TRIAL_DAYS == 30

\* ------------------------------------------------------ subscriptionService
TIER_LEVELS == [free |-> 0, basic |-> 1, standard |-> 2, premium |-> 3, enterprise |-> 4]


\* ------------------------------------------------------------ time, dates
\* One day, counted in seconds (the source counts milliseconds:
\* 24 * 60 * 60 * 1000; the factor 1000 is dropped to stay within 32 bits).
Day == 24 * 60 * 60

\* null: an absent trialEndsAt / promoCode / localStorage item
Null == <<>>

\* new Date(t).toISOString(): the date part and the time-of-day part
toISOString(t) == <<t \div Day, t % Day>>

\* new Date(isoString).getTime()
DateParse(iso) == iso[1] * Day + iso[2]

\* The instants at which the clock is read in a checked run (t).
Instants == {14 * Day, 14 * Day + Day \div 2, MaxNowDays * Day}

TrialEndOk(t) == t <= MaxTrialEndDays * Day

\* ------------------------------------------------------------ strings
\* A string is the sequence of its characters.
LowerChars == <<"a","b","c","d","e","f","g","h","i","j","k","l","m",
                "n","o","p","q","r","s","t","u","v","w","x","y","z">>
UpperChars == <<"A","B","C","D","E","F","G","H","I","J","K","L","M",
                "N","O","P","Q","R","S","T","U","V","W","X","Y","Z">>
WhiteSpace == {" ", "\t", "\n"}

UpperChar(c) ==
  IF \E i \in 1..Len(LowerChars) : LowerChars[i] = c
    THEN UpperChars[CHOOSE i \in 1..Len(LowerChars) : LowerChars[i] = c]
    ELSE c

toUpperCase_Identity(s) == s

toUpperCase(s) == [i \in 1..Len(s) |-> UpperChar(s[i])]

trim(s) ==
  IF \A i \in 1..Len(s) : s[i] \in WhiteSpace THEN <<>>
  ELSE LET first == CHOOSE i \in 1..Len(s) :
                      /\ s[i] \notin WhiteSpace
                      /\ \A j \in 1..(i - 1) : s[j] \in WhiteSpace
           last == CHOOSE i \in 1..Len(s) :
                     /\ s[i] \notin WhiteSpace
                     /\ \A j \in (i + 1)..Len(s) : s[j] \in WhiteSpace
       IN SubSeq(s, first, last)

\* null and undefined as arguments of a string parameter
JsNullArg == <<"<null>">>
JsUndefinedArg == <<"<undefined>">>

\* code || ''
OrEmpty(code) == IF code \in {JsNullArg, JsUndefinedArg} THEN <<>> ELSE code

\* ------------------------------------------------------------ featureFlags
STREFEX == <<"S","T","R","E","F","E","X">>

PROMO_CODES ==
  << [code |-> STREFEX \o <<"3","0">>, trialDays |-> 30, planId |-> "basic"],
     [code |-> STREFEX \o <<"6","0">>, trialDays |-> 60, planId |-> "basic"],
     [code |-> STREFEX \o <<"9","0">>, trialDays |-> 90, planId |-> "basic"],
     [code |-> STREFEX \o <<"P","R","O">>, trialDays |-> 30, planId |-> "standard"],
     [code |-> STREFEX \o <<"P","R","O","6","0">>, trialDays |-> 60, planId |-> "standard"],
     [code |-> STREFEX \o <<"P","R","E","M">>, trialDays |-> 30, planId |-> "premium"],
     [code |-> STREFEX \o <<"V","I","P">>, trialDays |-> 90, planId |-> "premium"] >>

getPromoConfig_Prefix(code) ==
  IF \E i \in 1..Len(PROMO_CODES) :
       /\ Len(code) <= Len(PROMO_CODES[i].code)
       /\ SubSeq(PROMO_CODES[i].code, 1, Len(code)) = code
    THEN PROMO_CODES[CHOOSE i \in 1..Len(PROMO_CODES) :
                       /\ Len(code) <= Len(PROMO_CODES[i].code)
                       /\ SubSeq(PROMO_CODES[i].code, 1, Len(code)) = code]
    ELSE Null

\* PROMO_CODES[code] || null  (the promo entry, or Null)
getPromoConfig(code) ==
  IF \E i \in 1..Len(PROMO_CODES) : PROMO_CODES[i].code = code
    THEN PROMO_CODES[CHOOSE i \in 1..Len(PROMO_CODES) : PROMO_CODES[i].code = code]
    ELSE Null


VARIABLES
  planId, accountType, status, trialEndsAt, billingPeriod, overrides, promoCode,
  localStorage, storage, role, now, authoritative, auth, saEnv,
  industryStore, loads, lastOp, ret

storeVars == <<planId, accountType, status, trialEndsAt, billingPeriod,
               overrides, promoCode>>
envVars == <<authoritative, storage, auth, saEnv, industryStore, loads>>
vars == <<planId, accountType, status, trialEndsAt, billingPeriod, overrides,
          promoCode, localStorage, storage, role, now, authoritative,
          auth, saEnv, industryStore, loads, lastOp, ret>>

\* useAuthStore before any login and after logout: nobody is signed in.
\* (role is the variable of that name; null is the empty string there.)
NoRole == ""
\* an expiresAt that is null or undefined: falsy, as the number 0 is
NoExpiry == 0
SignedOut == [isAuthenticated |-> FALSE, expiresAt |-> NoExpiry, email |-> Null]

\* useIndustrySubscriptionStore as created: no subscriptions, not loading.
IndustryStoreInit == [subscriptions |-> <<>>, loading |-> FALSE, error |-> FALSE]

\* The environment the entitlement specifications leave alone: nobody has
\* signed in through the auth store, no superadmin email is configured, the
\* industry subscriptions were never loaded.
EnvIdle ==
  /\ auth = SignedOut
  /\ saEnv = JsUndefinedArg
  /\ industryStore = IndustryStoreInit
  /\ loads = <<>>

\* The call made last: its name, its string argument, its numeric argument.
Op(name, key, n) == [name |-> name, key |-> key, n |-> n]

_isSuperAdmin_Admin == role = "admin"

\* useAuthStore.getState().role === 'superadmin'
_isSuperAdmin == role = "superadmin"

\* stored?.field || fallback.  The falsy values a written record holds are
\* the nulls of trialEndsAt and promoCode, whose fallback is null as well.
StoredOr(stored, field, fallback) ==
  IF field \in DOMAIN stored THEN stored[field] ELSE fallback

\* What the browser's storage does when it is called: "ok" serves reads and
\* writes, "full" serves reads and throws on setItem (quota exceeded),
\* "denied" throws on getItem and on setItem (storage blocked).
StorageModes == {"ok", "full", "denied"}

\* try { localStorage.getItem + JSON.parse } catch { null }: a missing or
\* malformed item, or a getItem that throws, gives null
MalformedItem == [malformed |-> TRUE]
getStored(item) ==
  IF storage = "denied" \/ item = MalformedItem THEN Null ELSE item

persistSub_Throws(data) == storage = "ok" /\ localStorage' = data

\* try { localStorage.setItem(key, JSON.stringify(data)) } catch { }
persistSub(data) == localStorage' = (IF storage = "ok" THEN data ELSE localStorage)

\* The initial state of the store, built from the item found in localStorage.
StoreFrom(stored) ==
  /\ planId = StoredOr(stored, "planId", "start")
  /\ accountType = StoredOr(stored, "accountType", "seller")
  /\ status = StoredOr(stored, "status", "active")
  /\ trialEndsAt = StoredOr(stored, "trialEndsAt", Null)
  /\ billingPeriod = StoredOr(stored, "billingPeriod", "monthly")
  /\ overrides = StoredOr(stored, "overrides", Null)
  /\ promoCode = StoredOr(stored, "promoCode", Null)

\* ---- inputs of a checked run
AccountTypes == {"seller", "buyer", "service_provider"}
Statuses == {"active", "trialing", "past_due", "canceled", "trial_expired"}
Roles == {"user", "superadmin"}
\* a plan id that is not in the catalog
LegacyPlan == "legacy"
CatalogIds == {PLANS[i].id : i \in 1..Len(PLANS)}

\* arguments of the transitions
SetPlanIds == {"start", "enterprise"}
SetPlanStatuses == {"active", "trialing", "past_due", "canceled"}
BillingInputs == {"monthly", "annual"}
OverrideInputs ==
  { Null,
    [multipleIndustries |-> TRUE, basicDashboard |-> FALSE] }
ExtendDayInputs == {14}
PromoInputs ==
  { <<" ", "s", "t", "r", "e", "f", "e", "x", "3", "0", " ">>,
    <<"B", "O", "G", "U", "S">>,
    JsNullArg }
\* arguments of the queries
FeatureInputs ==
  {"basicDashboard", "companyProfile", "multipleIndustries",
   "executiveSummary", "auditManagement", "maxProjects", "noSuchFeature"}
LimitInputs == {"maxProjects", "maxIndustries", "noSuchLimit"}

\* items found in localStorage when the application starts
StartupItems ==
  { Null,
    MalformedItem,
    [planId |-> "enterprise", status |-> "active", trialEndsAt |-> Null,
     accountType |-> "seller", billingPeriod |-> "annual", overrides |-> Null] }
\* the subscription row of the account in the subscriptions table
AuthoritativeRows == { [tier |-> "free", status |-> "active"] }

Init ==
  /\ localStorage \in StartupItems
  /\ storage = "ok"
  /\ StoreFrom(getStored(localStorage))
  /\ role = "user"
  /\ now = 0
  /\ authoritative \in AuthoritativeRows
  /\ EnvIdle
  /\ lastOp = Op("init", "", 0)
  /\ ret = JsUndefined

\* ---- transitions
\* The record each transition hands to persistSub.
Data(p, s, t, a, b, o) ==
  [planId |-> p, status |-> s, trialEndsAt |-> t, accountType |-> a,
   billingPeriod |-> b, overrides |-> o]
DataWithPromo(p, s, t, a, b, o, c) ==
  [planId |-> p, status |-> s, trialEndsAt |-> t, accountType |-> a,
   billingPeriod |-> b, overrides |-> o, promoCode |-> c]

\* The body of setPlan: what it writes to the store and to localStorage.
setPlanBody(p, s, t) ==
  /\ persistSub(Data(p, s, t, accountType, billingPeriod, overrides))
  /\ planId' = p
  /\ status' = s
  /\ trialEndsAt' = t
  /\ UNCHANGED <<accountType, billingPeriod, overrides, promoCode>>

setPlan(p, s, t) ==
  /\ setPlanBody(p, s, t)
  /\ lastOp' = Op("setPlan", p, 0)
  /\ ret' = JsUndefined
  /\ UNCHANGED <<envVars, role, now>>

setAccountTypeBody_EndsExpiredTrial(a) ==
  /\ persistSub(Data(planId, status, trialEndsAt, a, billingPeriod, overrides))
  /\ accountType' = a
  /\ status' = (IF status = "trialing" /\ trialEndsAt # Null
                    /\ DateParse(trialEndsAt) < now
                 THEN "trial_expired" ELSE status)
  /\ UNCHANGED <<planId, trialEndsAt, billingPeriod, overrides, promoCode>>

\* The body of setAccountType.
setAccountTypeBody(a) ==
  /\ persistSub(Data(planId, status, trialEndsAt, a, billingPeriod, overrides))
  /\ accountType' = a
  /\ UNCHANGED <<planId, status, trialEndsAt, billingPeriod, overrides, promoCode>>

setAccountType(a) ==
  /\ setAccountTypeBody(a)
  /\ lastOp' = Op("setAccountType", a, 0)
  /\ ret' = JsUndefined
  /\ UNCHANGED <<envVars, role, now>>

setBillingPeriod(b) ==
  /\ persistSub(Data(planId, status, trialEndsAt, accountType, b, overrides))
  /\ billingPeriod' = b
  /\ UNCHANGED <<planId, accountType, status, trialEndsAt, overrides, promoCode>>
  /\ lastOp' = Op("setBillingPeriod", b, 0)
  /\ ret' = JsUndefined
  /\ UNCHANGED <<envVars, role, now>>

startTrial_Premium ==
  LET end == toISOString(now + 14 * Day) IN
  /\ TrialEndOk(now + 14 * Day)
  /\ persistSub(DataWithPromo("premium", "trialing", end, accountType,
                              billingPeriod, overrides, promoCode))
  /\ planId' = "premium"
  /\ status' = "trialing"
  /\ trialEndsAt' = end
  /\ UNCHANGED <<accountType, billingPeriod, overrides, promoCode>>
  /\ lastOp' = Op("startTrial", "", 0)
  /\ ret' = JsUndefined
  /\ UNCHANGED <<envVars, role, now>>

startTrial ==
  LET end == toISOString(now + 14 * Day) IN
  /\ TrialEndOk(now + 14 * Day)
  /\ persistSub(DataWithPromo("enterprise", "trialing", end, accountType,
                              billingPeriod, overrides, promoCode))
  /\ planId' = "enterprise"
  /\ status' = "trialing"
  /\ trialEndsAt' = end
  /\ UNCHANGED <<accountType, billingPeriod, overrides, promoCode>>
  /\ lastOp' = Op("startTrial", "", 0)
  /\ ret' = JsUndefined
  /\ UNCHANGED <<envVars, role, now>>

DefaultArg_Always(arg, default) == default

\* A parameter with a default value: the default stands for undefined.
DefaultArg(arg, default) == IF arg = JsUndefined THEN default ELSE arg.n

\* days is JsUndefined when the caller omits it (days = BUYER_TRIAL_DAYS).
startBuyerTrial(days) ==
  LET d == DefaultArg(days, BUYER_TRIAL_DAYS)
      end == toISOString(now + d * Day)
  IN
  /\ TrialEndOk(now + d * Day)
  /\ persistSub(DataWithPromo("basic", "trialing", end, "buyer", "monthly",
                              overrides, promoCode))
  /\ planId' = "basic"
  /\ status' = "trialing"
  /\ trialEndsAt' = end
  /\ accountType' = "buyer"
  /\ UNCHANGED <<billingPeriod, overrides, promoCode>>
  /\ lastOp' = Op("startBuyerTrial", "", d)
  /\ ret' = JsUndefined
  /\ UNCHANGED <<envVars, role, now>>

extendTrial_FromNow(extraDays) ==
  LET end == now + extraDays * Day IN
  /\ TrialEndOk(end)
  /\ persistSub(DataWithPromo(planId, "trialing", toISOString(end), accountType,
                              billingPeriod, overrides, promoCode))
  /\ status' = "trialing"
  /\ trialEndsAt' = toISOString(end)
  /\ UNCHANGED <<planId, accountType, billingPeriod, overrides, promoCode>>
  /\ lastOp' = Op("extendTrial", "", extraDays)
  /\ ret' = JsUndefined
  /\ UNCHANGED <<envVars, role, now>>

extendTrial(extraDays) ==
  LET current == IF trialEndsAt # Null THEN DateParse(trialEndsAt) ELSE now
      base == IF current > now THEN current ELSE now
      end == base + extraDays * Day
  IN
  /\ TrialEndOk(end)
  /\ persistSub(DataWithPromo(planId, "trialing", toISOString(end), accountType,
                              billingPeriod, overrides, promoCode))
  /\ status' = "trialing"
  /\ trialEndsAt' = toISOString(end)
  /\ UNCHANGED <<planId, accountType, billingPeriod, overrides, promoCode>>
  /\ lastOp' = Op("extendTrial", "", extraDays)
  /\ ret' = JsUndefined
  /\ UNCHANGED <<envVars, role, now>>

applyPromoCode(code) ==
  LET normalized == toUpperCase(trim(OrEmpty(code)))
      promo == getPromoConfig(normalized)
  IN
  /\ lastOp' = Op("applyPromoCode", "", Len(normalized))
  /\ UNCHANGED <<envVars, role, now>>
  /\ IF normalized = <<>> \/ promo = Null
       THEN /\ ret' = JsBool(FALSE)
            /\ UNCHANGED <<storeVars, localStorage>>
       ELSE LET end == IF promo.trialDays # 0
                         THEN toISOString(now + promo.trialDays * Day)
                         ELSE trialEndsAt
                st == IF promo.trialDays # 0 THEN "trialing" ELSE status
            IN
            /\ persistSub(DataWithPromo(promo.planId, st, end, accountType,
                                        billingPeriod, overrides, normalized))
            /\ planId' = promo.planId
            /\ status' = st
            /\ trialEndsAt' = end
            /\ promoCode' = normalized
            /\ UNCHANGED <<accountType, billingPeriod, overrides>>
            /\ ret' = JsBool(TRUE)

downgradeBody_BuyerToStart ==
  /\ persistSub(DataWithPromo("start", "active", Null, accountType,
                              "monthly", Null, Null))
  /\ planId' = "start"
  /\ status' = "active"
  /\ trialEndsAt' = Null
  /\ billingPeriod' = "monthly"
  /\ overrides' = Null
  /\ promoCode' = Null
  /\ UNCHANGED accountType

downgradeBody_KeepsOverrides ==
  LET fallbackPlan == IF accountType = "buyer" THEN "basic" ELSE "start"
      fallbackStatus == IF accountType = "buyer" THEN "trial_expired" ELSE "active"
  IN
  /\ persistSub(DataWithPromo(fallbackPlan, fallbackStatus, Null, accountType,
                              "monthly", overrides, Null))
  /\ planId' = fallbackPlan
  /\ status' = fallbackStatus
  /\ trialEndsAt' = Null
  /\ billingPeriod' = "monthly"
  /\ promoCode' = Null
  /\ UNCHANGED <<accountType, overrides>>

\* The body of downgrade(): what it writes to the store and to localStorage.
downgradeBody ==
  LET fallbackPlan == IF accountType = "buyer" THEN "basic" ELSE "start"
      fallbackStatus == IF accountType = "buyer" THEN "trial_expired" ELSE "active"
  IN
  /\ persistSub(DataWithPromo(fallbackPlan, fallbackStatus, Null, accountType,
                              "monthly", Null, Null))
  /\ planId' = fallbackPlan
  /\ status' = fallbackStatus
  /\ trialEndsAt' = Null
  /\ billingPeriod' = "monthly"
  /\ overrides' = Null
  /\ promoCode' = Null
  /\ UNCHANGED accountType

downgrade ==
  /\ downgradeBody
  /\ lastOp' = Op("downgrade", "", 0)
  /\ ret' = JsUndefined
  /\ UNCHANGED <<envVars, role, now>>

setOverrides(o) ==
  /\ persistSub(Data(planId, status, trialEndsAt, accountType, billingPeriod, o))
  /\ overrides' = o
  /\ UNCHANGED <<planId, accountType, status, trialEndsAt, billingPeriod, promoCode>>
  /\ lastOp' = Op("setOverrides", "", 0)
  /\ ret' = JsUndefined
  /\ UNCHANGED <<envVars, role, now>>


\* ---- queries
trialExpired_DayLate ==
  /\ status = "trialing"
  /\ trialEndsAt # Null
  /\ DateParse(trialEndsAt) + Day < now

\* status === 'trialing' && trialEndsAt && new Date(trialEndsAt) < new Date()
trialExpired ==
  /\ status = "trialing"
  /\ trialEndsAt # Null
  /\ DateParse(trialEndsAt) < now

baseFeatures_Wider ==
  [basicDashboard |-> JsBool(TRUE), companyProfile |-> JsBool(TRUE),
   multipleIndustries |-> JsBool(TRUE)]

\* const base = { basicDashboard: true, companyProfile: true }
baseFeatures == [basicDashboard |-> JsBool(TRUE), companyProfile |-> JsBool(TRUE)]

\* The answer to a holder of a restricted status: base[featureKey] ?? false
restrictedAnswer(featureKey) ==
  Nullish(Get(baseFeatures, featureKey), JsBool(FALSE))

planAnswer_LimitsFirst(ov, p, a, featureKey) ==
  IF featureKey \in DOMAIN getEffectiveLimits(p, a)
    THEN getEffectiveLimits(p, a)[featureKey]
  ELSE IF featureKey \in DOMAIN ov THEN JsBool(ov[featureKey])
  ELSE JsBool(FALSE)

\* The answer from the overrides, then from the effective limits.
planAnswer(ov, p, a, featureKey) ==
  IF featureKey \in DOMAIN ov
    THEN JsBool(ov[featureKey])
    ELSE Nullish(Get(getEffectiveLimits(p, a), featureKey), JsBool(FALSE))

hasFeature(featureKey) ==
  /\ lastOp' = Op("hasFeature", featureKey, 0)
  /\ UNCHANGED <<envVars, role, now>>
  /\ IF _isSuperAdmin
       THEN /\ ret' = JsBool(TRUE)
            /\ UNCHANGED <<storeVars, localStorage>>
     ELSE IF trialExpired
       THEN /\ downgradeBody
            /\ ret' = JsBool(FALSE)
     ELSE IF status \in {"trial_expired", "canceled"}
       THEN /\ ret' = restrictedAnswer(featureKey)
            /\ UNCHANGED <<storeVars, localStorage>>
     ELSE /\ ret' = planAnswer(overrides, planId, accountType, featureKey)
          /\ UNCHANGED <<storeVars, localStorage>>

\* A restricted status is held to the free tier; the others to the plan's.
tierAnswer_IgnoresStatus(st, p, requiredTier) ==
  getTierLevel(p) >= requiredTier

tierAnswer(st, p, requiredTier) ==
  IF st \in {"trial_expired", "canceled"}
    THEN TIERS.START >= requiredTier
    ELSE getTierLevel(p) >= requiredTier

hasTier(requiredTier) ==
  /\ lastOp' = Op("hasTier", "", requiredTier)
  /\ UNCHANGED <<envVars, role, now>>
  /\ IF _isSuperAdmin
       THEN /\ ret' = JsBool(TRUE)
            /\ UNCHANGED <<storeVars, localStorage>>
     ELSE IF trialExpired
       THEN /\ downgradeBody
            /\ ret' = JsBool(TIERS.START >= requiredTier)
     ELSE /\ ret' = JsBool(tierAnswer(status, planId, requiredTier))
          /\ UNCHANGED <<storeVars, localStorage>>

withinLimit(limitKey, currentCount) ==
  /\ lastOp' = Op("withinLimit", limitKey, currentCount)
  /\ UNCHANGED <<envVars, role, now, storeVars, localStorage>>
  /\ IF _isSuperAdmin
       THEN ret' = JsBool(TRUE)
     ELSE LET max == Get(getEffectiveLimits(planId, accountType), limitKey) IN
          IF max = JsUndefined \/ max = JsInfinity
            THEN ret' = JsBool(TRUE)
            ELSE ret' = JsBool(JsLess(currentCount, max))

isTrial_IgnoresEnd ==
  /\ lastOp' = Op("isTrial", "", 0)
  /\ UNCHANGED <<envVars, role, now, storeVars, localStorage>>
  /\ ret' = JsBool(status = "trialing")

isTrial_NotStrict ==
  /\ lastOp' = Op("isTrial", "", 0)
  /\ UNCHANGED <<envVars, role, now, storeVars, localStorage>>
  /\ IF status # "trialing" \/ trialEndsAt = Null
       THEN ret' = JsBool(FALSE)
       ELSE ret' = JsBool(DateParse(trialEndsAt) >= now)

isTrial ==
  /\ lastOp' = Op("isTrial", "", 0)
  /\ UNCHANGED <<envVars, role, now, storeVars, localStorage>>
  /\ IF status # "trialing" \/ trialEndsAt = Null
       THEN ret' = JsBool(FALSE)
       ELSE ret' = JsBool(DateParse(trialEndsAt) > now)

CeilDiv_Floor(a, b) == a \div b

\* Math.ceil(ms / day) for an integer ms
CeilDiv(a, b) == IF a % b = 0 THEN a \div b ELSE (a \div b) + 1
Max(a, b) == IF a >= b THEN a ELSE b

trialDaysLeft ==
  /\ lastOp' = Op("trialDaysLeft", "", 0)
  /\ UNCHANGED <<envVars, role, now, storeVars, localStorage>>
  /\ IF status # "trialing" \/ trialEndsAt = Null
       THEN ret' = JsNum(0)
       ELSE ret' = JsNum(Max(0, CeilDiv(DateParse(trialEndsAt) - now, Day)))

\* ---- environment
\* Time passes: the next reading of the clock is a later instant.
tick(t) ==
  /\ t > now
  /\ now' = t
  /\ lastOp' = Op("tick", "", 0)
  /\ ret' = JsUndefined
  /\ UNCHANGED <<storeVars, localStorage, envVars, role>>

\* useAuthStore.getState().login({ role, ... })
login(r) ==
  /\ role' = r
  /\ lastOp' = Op("login", r, 0)
  /\ ret' = JsUndefined
  /\ UNCHANGED <<storeVars, localStorage, envVars, now>>

\* The page is loaded again: the store is rebuilt from localStorage.
reload ==
  /\ planId' = StoredOr(getStored(localStorage), "planId", "start")
  /\ accountType' = StoredOr(getStored(localStorage), "accountType", "seller")
  /\ status' = StoredOr(getStored(localStorage), "status", "active")
  /\ trialEndsAt' = StoredOr(getStored(localStorage), "trialEndsAt", Null)
  /\ billingPeriod' = StoredOr(getStored(localStorage), "billingPeriod", "monthly")
  /\ overrides' = StoredOr(getStored(localStorage), "overrides", Null)
  /\ promoCode' = StoredOr(getStored(localStorage), "promoCode", Null)
  /\ lastOp' = Op("init", "", 0)
  /\ ret' = JsUndefined
  /\ UNCHANGED <<localStorage, envVars, role, now>>

\* The life of one account's store: every transition, the queries the
\* pages make, the clock and page reloads.
Next ==
  \/ \E p \in SetPlanIds, s \in SetPlanStatuses : setPlan(p, s, Null)
  \/ \E a \in AccountTypes : setAccountType(a)
  \/ \E b \in BillingInputs : setBillingPeriod(b)
  \/ startTrial
  \/ startBuyerTrial(JsUndefined)
  \/ \E d \in ExtendDayInputs : extendTrial(d)
  \/ \E c \in PromoInputs : applyPromoCode(c)
  \/ downgrade
  \/ \E o \in OverrideInputs : setOverrides(o)
  \/ hasFeature("multipleIndustries")
  \/ hasTier(TIERS.BASIC)
  \/ withinLimit("maxProjects", MaxCount)
  \/ isTrial
  \/ trialDaysLeft
  \/ \E t \in Instants : tick(t)
  \/ reload

Spec == Init /\ [][Next]_vars

\* ---- the queries on every kind of stored state
\* The instant at which the queries are made, and the trial ends around it.
QueryNow == 20 * Day
TrialEnds ==
  { Null, toISOString(QueryNow - Day \div 2), toISOString(QueryNow),
    toISOString(QueryNow + Day \div 2) }

StoredRecords ==
  [planId : CatalogIds \cup {LegacyPlan}, status : Statuses,
   trialEndsAt : TrialEnds, accountType : AccountTypes,
   billingPeriod : {"annual"}, overrides : OverrideInputs,
   promoCode : {Null, STREFEX \o <<"3", "0">>}]

QueryInit ==
  /\ localStorage \in StoredRecords
  /\ storage = "ok"
  /\ StoreFrom(getStored(localStorage))
  /\ role \in Roles
  /\ now = QueryNow
  /\ authoritative \in AuthoritativeRows
  /\ EnvIdle
  /\ lastOp = Op("init", "", 0)
  /\ ret = JsUndefined

QueryNext ==
  \/ \E k \in FeatureInputs : hasFeature(k)
  \/ \E r \in 0..MaxRequiredTier : hasTier(r)
  \/ \E k \in LimitInputs, n \in 0..MaxCount : withinLimit(k, n)
  \/ isTrial
  \/ trialDaysLeft
  \/ \E r \in Roles : login(r)

QuerySpec == QueryInit /\ [][QueryNext]_vars

\* ---- each transition applied once to every kind of stored state
\* Promo inputs that normalise to a key of PROMO_CODES, one per key.
PromoKeyInputs ==
  << <<" ", "s", "t", "r", "e", "f", "e", "x", "3", "0", " ">>,
     <<"S", "T", "R", "E", "F", "E", "X", "6", "0">>,
     <<"S", "t", "r", "e", "f", "e", "x", "9", "0", "\n">>,
     <<"\t", "S", "T", "R", "E", "F", "E", "X", "P", "R", "O">>,
     <<"s", "t", "r", "e", "f", "e", "x", "p", "r", "o", "6", "0">>,
     <<"S", "T", "R", "E", "F", "E", "X", "P", "R", "E", "M", " ">>,
     <<"s", "t", "r", "e", "f", "e", "x", "V", "I", "P">> >>
\* Promo inputs that do not: unknown, empty, blank, null, undefined, a
\* prefix of a key, a key with a blank inside.
PromoOtherInputs ==
  { <<"B", "O", "G", "U", "S">>,
    <<>>,
    <<" ", "\t", " ">>,
    JsNullArg,
    JsUndefinedArg,
    <<"S", "T", "R", "E", "F", "E", "X">>,
    <<"S", "T", "R", "E", "F", "E", "X", " ", "3", "0">> }
\* The days handed to startBuyerTrial: omitted, or a week.
BuyerTrialDayInputs == {JsUndefined, JsNum(7)}

TransitionInit ==
  /\ QueryInit
  /\ role = "user"

\* The store is as it was built: no transition has been applied yet.
FirstCall == lastOp.name = "init"

TransitionNext ==
  \/ FirstCall /\ \E p \in SetPlanIds, s \in SetPlanStatuses : setPlan(p, s, Null)
  \/ FirstCall /\ \E a \in AccountTypes : setAccountType(a)
  \/ FirstCall /\ \E b \in BillingInputs : setBillingPeriod(b)
  \/ FirstCall /\ startTrial
  \/ FirstCall /\ \E d \in BuyerTrialDayInputs : startBuyerTrial(d)
  \/ FirstCall /\ \E d \in ExtendDayInputs \cup {1} : extendTrial(d)
  \/ FirstCall /\ \E i \in 1..Len(PromoKeyInputs) : applyPromoCode(PromoKeyInputs[i])
  \/ FirstCall /\ \E c \in PromoOtherInputs : applyPromoCode(c)
  \/ FirstCall /\ downgrade
  \/ FirstCall /\ \E o \in OverrideInputs : setOverrides(o)

TransitionSpec == TransitionInit /\ [][TransitionNext]_vars

\* ---- each transition applied once while the browser's storage fails
\* The items found in localStorage at startup: none, a malformed one, and
\* the records written without overrides or promo code.
PersistItems ==
  {Null, MalformedItem}
    \cup {r \in StoredRecords : r.overrides = Null /\ r.promoCode = Null}

PersistInit ==
  /\ localStorage \in PersistItems
  /\ storage \in StorageModes
  /\ StoreFrom(getStored(localStorage))
  /\ role = "user"
  /\ now = QueryNow
  /\ authoritative \in AuthoritativeRows
  /\ EnvIdle
  /\ lastOp = Op("init", "", 0)
  /\ ret = JsUndefined

PersistNext ==
  \/ FirstCall /\ \E p \in SetPlanIds, s \in SetPlanStatuses : setPlan(p, s, Null)
  \/ FirstCall /\ \E a \in AccountTypes : setAccountType(a)
  \/ FirstCall /\ \E b \in BillingInputs : setBillingPeriod(b)
  \/ FirstCall /\ startTrial
  \/ FirstCall /\ \E d \in BuyerTrialDayInputs : startBuyerTrial(d)
  \/ FirstCall /\ \E d \in ExtendDayInputs : extendTrial(d)
  \/ FirstCall /\ \E c \in PromoInputs : applyPromoCode(c)
  \/ FirstCall /\ downgrade
  \/ FirstCall /\ \E o \in OverrideInputs : setOverrides(o)
  \/ FirstCall /\ hasFeature("multipleIndustries")

PersistSpec == PersistInit /\ [][PersistNext]_vars

\* ---- the catalog functions applied to every plan id and account type
\* The account types handed to getPlansForAccountType: the three of the
\* application and one that is none of them.
AccountTypeInputs == AccountTypes \cup {"guest"}

CatalogRecords ==
  [planId : CatalogIds \cup {LegacyPlan}, status : {"active"},
   trialEndsAt : {Null}, accountType : AccountTypes,
   billingPeriod : {"monthly"}, overrides : {Null}]

CatalogInit ==
  /\ localStorage \in CatalogRecords
  /\ storage = "ok"
  /\ StoreFrom(getStored(localStorage))
  /\ role = "user"
  /\ now = QueryNow
  /\ authoritative \in AuthoritativeRows
  /\ EnvIdle
  /\ lastOp = Op("init", "", 0)
  /\ ret = JsUndefined

\* useSubscriptionStore.getPlan: getPlanById(get().planId)
getPlan ==
  /\ ret' = getPlanById(planId)
  /\ lastOp' = Op("getPlan", planId, 0)
  /\ UNCHANGED <<envVars, role, now, storeVars, localStorage>>

\* useSubscriptionStore.getEffectiveLimits:
\* getEffectiveLimits(get().planId, get().accountType)
storeGetEffectiveLimits ==
  /\ ret' = getEffectiveLimits(planId, accountType)
  /\ lastOp' = Op("getEffectiveLimits", planId, 0)
  /\ UNCHANGED <<envVars, role, now, storeVars, localStorage>>

\* useSubscriptionStore.getTier: getTierLevel(get().planId)
getTier ==
  /\ ret' = JsNum(getTierLevel(planId))
  /\ lastOp' = Op("getTier", planId, 0)
  /\ UNCHANGED <<envVars, role, now, storeVars, localStorage>>

\* Register.jsx: availablePlans = getPlansForAccountType(accountType)
availablePlans(acct) ==
  /\ ret' = getPlansForAccountType(acct)
  /\ lastOp' = Op("getPlansForAccountType", acct, 0)
  /\ UNCHANGED <<envVars, role, now, storeVars, localStorage>>

CatalogNext ==
  \/ getPlan
  \/ storeGetEffectiveLimits
  \/ getTier
  \/ \E a \in AccountTypeInputs : availablePlans(a)

CatalogSpec == CatalogInit /\ [][CatalogNext]_vars

\* ---- a trial that runs out while the pages keep asking
\* Stored records of a trial that ends half a day before or after QueryNow.
TrialRecords ==
  [planId : {"basic", "enterprise"}, status : {"trialing"},
   trialEndsAt : TrialEnds \ {Null}, accountType : AccountTypes,
   billingPeriod : {"annual"}, overrides : OverrideInputs,
   promoCode : {Null}]

LiveInit ==
  /\ localStorage \in TrialRecords
  /\ storage = "ok"
  /\ StoreFrom(getStored(localStorage))
  /\ role = "user"
  /\ now = QueryNow
  /\ authoritative \in AuthoritativeRows
  /\ EnvIdle
  /\ lastOp = Op("init", "", 0)
  /\ ret = JsUndefined

\* The entitlement queries of the store, as the pages issue them.
EntitlementQuery ==
  \/ \E k \in {"basicDashboard", "multipleIndustries"} : hasFeature(k)
  \/ \E r \in {TIERS.START, TIERS.BASIC} : hasTier(r)
  \/ \E n \in 0..MaxCount : withinLimit("maxProjects", n)

LiveNext ==
  \/ EntitlementQuery
  \/ \E t \in Instants : tick(t)

\* The pages keep issuing entitlement queries.
LiveSpec == LiveInit /\ [][LiveNext]_vars /\ WF_vars(EntitlementQuery)

\* ---- registration and session restore (authService, Register.jsx)
\* capRole(role, email): only the registered superadmin email keeps the
\* role 'superadmin'.
capRole_Uncapped(r, superadminEmail) == IF r = NoRole THEN "user" ELSE r

capRole(r, superadminEmail) ==
  IF r = "superadmin" /\ ~superadminEmail THEN "admin"
  ELSE IF r = NoRole THEN "user"
  ELSE r

\* The profiles profilesService.getMyProfile() returns: the role, whether the
\* email is the superadmin's, the primary account type of the metadata.
Profiles ==
  [role : {"user", "superadmin"}, superadminEmail : BOOLEAN,
   accountType : AccountTypes]

\* storeSupabaseSession(session, profile): login({ role, ... }), then
\* useSubscriptionStore.getState().setAccountType(primaryAccountType).
storeSupabaseSessionBody(profile) ==
  /\ role' = capRole(profile.role, profile.superadminEmail)
  /\ setAccountTypeBody(profile.accountType)

\* authService.register, Supabase path with a session returned at once, as
\* Register.jsx handleSubmit calls it (selectedTier left to its default
\* 'free'): the profile is written with role 'admin', the session is stored,
\* createFreeSubscription upserts the account's row.
register(a) ==
  /\ storeSupabaseSessionBody(
       [role |-> "admin", superadminEmail |-> FALSE, accountType |-> a])
  /\ authoritative' = [tier |-> "free", status |-> "active"]
  /\ lastOp' = Op("register", a, 0)
  /\ ret' = JsUndefined
  /\ UNCHANGED <<now, storage, auth, saEnv, industryStore, loads>>

\* Register.jsx handleGoogleSignup: loginWithGoogle (storeSession), then
\* setStoreAccountType(accountType); setPlan(buyer ? 'basic' : 'start').
handleGoogleSignup(a, user) ==
  LET p == IF a = "buyer" THEN "basic" ELSE "start" IN
  /\ role' = capRole(user.role, user.superadminEmail)
  /\ persistSub(Data(p, "active", Null, a, billingPeriod, overrides))
  /\ accountType' = a
  /\ planId' = p
  /\ status' = "active"
  /\ trialEndsAt' = Null
  /\ UNCHANGED <<billingPeriod, overrides, promoCode>>
  /\ lastOp' = Op("handleGoogleSignup", a, 0)
  /\ ret' = JsUndefined
  /\ UNCHANGED <<envVars, now>>

\* authService.initSession with a valid Supabase session.
initSession(profile) ==
  /\ storeSupabaseSessionBody(profile)
  /\ lastOp' = Op("initSession", profile.accountType, 0)
  /\ ret' = JsUndefined
  /\ UNCHANGED <<envVars, now>>

\* authService.loginWithEmail, Supabase path: a user registered with tier
\* 'free' gets the free row upserted, then the session is stored.
loginWithEmail(profile, metaTier) ==
  /\ authoritative' = IF metaTier = "free"
                        THEN [tier |-> "free", status |-> "active"]
                        ELSE authoritative
  /\ storeSupabaseSessionBody(profile)
  /\ lastOp' = Op("loginWithEmail", profile.accountType, 0)
  /\ ret' = JsUndefined
  /\ UNCHANGED <<now, storage, auth, saEnv, industryStore, loads>>

\* rows of the subscriptions table found when the application starts
AccountRows ==
  { [tier |-> "free", status |-> "active"],
    [tier |-> "premium", status |-> "active"] }

AccountInit ==
  /\ localStorage \in StartupItems
  /\ storage = "ok"
  /\ StoreFrom(getStored(localStorage))
  /\ role = "user"
  /\ now = 0
  /\ authoritative \in AccountRows
  /\ EnvIdle
  /\ lastOp = Op("init", "", 0)
  /\ ret = JsUndefined

\* An account registers, signs in and restores its session on a device; the
\* pages query the store.
AccountNext ==
  \/ \E a \in AccountTypes : register(a)
  \/ \E a \in AccountTypes, u \in Profiles : handleGoogleSignup(a, u)
  \/ \E pr \in Profiles : initSession(pr)
  \/ \E pr \in Profiles, t \in {"free", "premium"} : loginWithEmail(pr, t)
  \/ hasFeature("multipleIndustries")
  \/ hasTier(TIERS.BASIC)
  \/ withinLimit("maxProjects", MaxCount)
  \/ \E t \in Instants : tick(t)
  \/ reload

AccountSpec == AccountInit /\ [][AccountNext]_vars

\* ---- signing in: the role and the session the auth store holds
LowerChar(c) ==
  IF \E i \in 1..Len(UpperChars) : UpperChars[i] = c
    THEN LowerChars[CHOOSE i \in 1..Len(UpperChars) : UpperChars[i] = c]
    ELSE c

toLowerCase(s) == [i \in 1..Len(s) |-> LowerChar(s[i])]

\* (import.meta.env.VITE_SA_EMAIL || '').trim().toLowerCase()
SUPERADMIN_EMAIL == toLowerCase(trim(OrEmpty(saEnv)))

isSuperadminEmail_NoConfigTest(email) ==
  /\ email \notin {JsNullArg, JsUndefinedArg}
  /\ toLowerCase(trim(email)) = SUPERADMIN_EMAIL

\* if (!SUPERADMIN_EMAIL) return false
\* return email?.trim().toLowerCase() === SUPERADMIN_EMAIL
isSuperadminEmail(email) ==
  IF SUPERADMIN_EMAIL = <<>> THEN FALSE
  ELSE /\ email \notin {JsNullArg, JsUndefinedArg}
       /\ toLowerCase(trim(email)) = SUPERADMIN_EMAIL

\* values of VITE_SA_EMAIL: not set, blank, an address
SaEnvInputs == {JsUndefinedArg, <<" ">>, <<" ", "S", "A", "@", "x">>}
\* the email a session, a backend response or the login form carries: the
\* superadmin's, the same in other letter case, another account's, a prefix
\* of the superadmin's, the empty string, none
EmailInputs ==
  { <<"s", "a", "@", "x">>, <<"S", "a", "@", "X">>, <<"u", "@", "x">>,
    <<"s", "a">>, <<>>, JsUndefinedArg }
\* the role a profile or a backend response carries ("" when it has none)
CarriedRoles == {NoRole, "user", "admin", "superadmin"}
\* 55 * 60 * 1000 ms, in seconds
SessionLifetime == 55 * 60

\* useAuthStore.getState().logout()
logoutBody ==
  /\ auth' = SignedOut
  /\ role' = NoRole

\* The active subscriptions of the signed-in user in public.subscriptions:
\* .eq('user_id', userId).eq('status', 'active')
selectActive(row) ==
  IF row.status = "active"
    THEN << [industry |-> "automotive", tier |-> row.tier, status |-> row.status] >>
    ELSE <<>>

\* storeSession(backendResponse): the role is capped by the response's email
\* and handed to useAuthStore.login.
storeSession(userRole, email) ==
  /\ role' = capRole(userRole, isSuperadminEmail(email))
  /\ auth' = [isAuthenticated |-> TRUE, expiresAt |-> now + SessionLifetime,
              email |-> email]
  /\ lastOp' = Op("storeSession", userRole, 0)
  /\ ret' = JsUndefined
  /\ UNCHANGED <<storeVars, localStorage, storage, now, authoritative, saEnv,
                 industryStore, loads>>

\* storeSupabaseSession(session, profile), its awaited load included: the
\* role of the profile is capped by the session's email, the active
\* subscriptions are loaded, the account type is aligned.
storeSupabaseSession(profileRole, email, acct) ==
  /\ role' = capRole(IF profileRole = NoRole THEN "user" ELSE profileRole,
                     isSuperadminEmail(email))
  /\ auth' = [isAuthenticated |-> TRUE, expiresAt |-> now + SessionLifetime,
              email |-> email]
  /\ industryStore' = [subscriptions |-> selectActive(authoritative),
                       loading |-> FALSE, error |-> FALSE]
  /\ setAccountTypeBody(acct)
  /\ lastOp' = Op("storeSupabaseSession", profileRole, 0)
  /\ ret' = JsUndefined
  /\ UNCHANGED <<storage, now, authoritative, saEnv, loads>>

\* Login page handleSubmit, superadmin branch: an email that is the
\* superadmin's is checked against the password on the client; any other
\* email goes to authService.loginWithEmail (storeSession or
\* storeSupabaseSession above).
handleSubmit(email, passwordOk) ==
  /\ isSuperadminEmail(toLowerCase(trim(email)))
  /\ lastOp' = Op("handleSubmit", "", 0)
  /\ UNCHANGED <<storage, now, authoritative, saEnv, industryStore, loads>>
  /\ IF ~passwordOk
       THEN /\ ret' = JsBool(FALSE)
            /\ UNCHANGED <<role, auth, storeVars, localStorage>>
       ELSE /\ ret' = JsBool(TRUE)
            /\ role' = "superadmin"
            /\ auth' = [isAuthenticated |-> TRUE, expiresAt |-> NoExpiry,
                        email |-> toLowerCase(trim(email))]
            /\ persistSub(Data("enterprise", "active", Null, "buyer",
                               billingPeriod, overrides))
            /\ planId' = "enterprise"
            /\ status' = "active"
            /\ trialEndsAt' = Null
            /\ accountType' = "buyer"
            /\ UNCHANGED <<billingPeriod, overrides, promoCode>>

\* the requiredRole prop of a route ("" when the route gives none)
RequiredRoles == {NoRole, "user", "manager", "admin"}

\* ProtectedRoute({ children, requiredRole }): what it renders.
ProtectedRoute(requiredRole) ==
  /\ lastOp' = Op("ProtectedRoute", requiredRole, 0)
  /\ UNCHANGED <<storeVars, localStorage, storage, now, authoritative, saEnv,
                 industryStore, loads>>
  /\ IF auth.isAuthenticated /\ auth.expiresAt # NoExpiry /\ now > auth.expiresAt
       THEN /\ logoutBody
            /\ ret' = "Navigate /login"
     ELSE IF ~auth.isAuthenticated
       THEN /\ ret' = "Navigate /login"
            /\ UNCHANGED <<role, auth>>
     ELSE /\ ret' = "children"
          /\ UNCHANGED <<role, auth>>

SessionInit ==
  /\ localStorage = Null
  /\ storage = "ok"
  /\ StoreFrom(getStored(localStorage))
  /\ role = NoRole
  /\ now = QueryNow
  /\ authoritative \in AccountRows
  /\ auth = SignedOut
  /\ saEnv \in SaEnvInputs
  /\ industryStore = IndustryStoreInit
  /\ loads = <<>>
  /\ lastOp = Op("init", "", 0)
  /\ ret = JsUndefined

SessionNext ==
  \/ \E r \in CarriedRoles, e \in EmailInputs : storeSession(r, e)
  \/ \E r \in CarriedRoles, e \in EmailInputs, a \in {"seller", "buyer"} :
       storeSupabaseSession(r, e, a)
  \/ \E e \in EmailInputs, ok \in BOOLEAN : handleSubmit(e, ok)
  \/ \E r \in RequiredRoles : ProtectedRoute(r)
  \/ hasFeature("auditManagement")
  \/ \E t \in Instants : tick(t)

SessionSpec == SessionInit /\ [][SessionNext]_vars

\* ---- the industry subscriptions: the table, the store, the loads in flight
hasMinimumTier_UnknownIsFree(userTier, requiredTier) ==
  LET userLevel == IF userTier \in DOMAIN TIER_LEVELS
                     THEN TIER_LEVELS[userTier] ELSE 0
      requiredLevel == IF requiredTier \in DOMAIN TIER_LEVELS
                         THEN TIER_LEVELS[requiredTier] ELSE 0
  IN userLevel >= requiredLevel

\* TIER_LEVELS[userTier] ?? -1 >= TIER_LEVELS[requiredTier] ?? 999
hasMinimumTier(userTier, requiredTier) ==
  LET userLevel == IF userTier \in DOMAIN TIER_LEVELS
                     THEN TIER_LEVELS[userTier] ELSE -1
      requiredLevel == IF requiredTier \in DOMAIN TIER_LEVELS
                         THEN TIER_LEVELS[requiredTier] ELSE 999
  IN userLevel >= requiredLevel

\* The two users whose subscriptions are loaded on this device: the account
\* whose row for 'automotive' is the variable authoritative, and another
\* account with an active premium subscription for 'machinery'.
UserIds == {"u1", "u2"}
OtherUserRows ==
  << [industry |-> "machinery", tier |-> "premium", status |-> "active"] >>
\* what the query of loadActiveSubscriptions returns for a user
rowsFor(userId) ==
  IF userId = "u1" THEN selectActive(authoritative) ELSE OtherUserRows

\* requiredTier as the callers pass it: omitted, a tier, an unknown name
RequiredTierInputs ==
  <<"<undefined>", "free", "basic", "premium", "enterprise", "gold">>
\* requiredTier = 'free' (default parameter)
DefaultTier(arg) == IF arg = "<undefined>" THEN "free" ELSE arg
IndustryInputs == {"automotive", "machinery"}
\* lists handed to setSubscriptions: null, a row with an unknown tier name,
\* a row that is not active
SubscriptionLists ==
  { Null,
    << [industry |-> "automotive", tier |-> "gold", status |-> "active"] >>,
    << [industry |-> "automotive", tier |-> "premium", status |-> "pending"],
       [industry |-> "machinery", tier |-> "basic", status |-> "active"] >> }

\* subscriptions.find((s) => s.industry === industry && s.status === 'active')
findActive(subs, industry) ==
  LET hits == {i \in 1..Len(subs) :
                 subs[i].industry = industry /\ subs[i].status = "active"}
  IN IF hits = {} THEN Null
     ELSE subs[CHOOSE i \in hits : \A j \in hits : i <= j]

hasIndustryAccess(industry, n) ==
  LET found == findActive(industryStore.subscriptions, industry) IN
  /\ ret' = JsBool(IF found = Null THEN FALSE
                   ELSE hasMinimumTier(found.tier,
                                       DefaultTier(RequiredTierInputs[n])))
  /\ lastOp' = Op("hasIndustryAccess", industry, n)
  /\ UNCHANGED <<storeVars, localStorage, role, now, envVars>>

\* setSubscriptions: set({ subscriptions: subscriptions || [] })
setSubscriptions(list) ==
  /\ industryStore' = [industryStore EXCEPT !.subscriptions = list]
  /\ lastOp' = Op("setSubscriptions", "", Len(list))
  /\ ret' = JsUndefined
  /\ UNCHANGED <<storeVars, localStorage, role, now, authoritative, storage,
                 auth, saEnv, loads>>

\* createPendingSubscription({ userId, industry, tier }): upsert of the row
\* with status 'pending'
createPendingSubscription(tier) ==
  /\ authoritative' = [tier |-> tier, status |-> "pending"]
  /\ lastOp' = Op("createPendingSubscription", tier, 0)
  /\ ret' = JsUndefined
  /\ UNCHANGED <<storeVars, localStorage, role, now, storage, auth, saEnv,
                 industryStore, loads>>

\* The payment is confirmed on the server: the row becomes 'active'.
activateSubscription ==
  /\ authoritative.status = "pending"
  /\ authoritative' = [authoritative EXCEPT !.status = "active"]
  /\ lastOp' = Op("activateSubscription", "", 0)
  /\ ret' = JsUndefined
  /\ UNCHANGED <<storeVars, localStorage, role, now, storage, auth, saEnv,
                 industryStore, loads>>

\* loadActiveSubscriptions(userId) up to its await: loading is set and the
\* query is sent.  Without a userId the list is emptied at once.
loadStart(userId) ==
  /\ Len(loads) < MaxLoads
  /\ lastOp' = Op("loadStart", userId, 0)
  /\ ret' = JsUndefined
  /\ UNCHANGED <<storeVars, localStorage, role, now, authoritative, storage,
                 auth, saEnv>>
  /\ IF userId = ""
       THEN /\ industryStore' = [industryStore EXCEPT !.subscriptions = <<>>]
            /\ UNCHANGED loads
       ELSE /\ industryStore' = [industryStore EXCEPT !.loading = TRUE,
                                                      !.error = FALSE]
            /\ loads' = Append(loads, [user |-> userId, done |-> FALSE,
                                       failed |-> FALSE])

\* loadActiveSubscriptions after its await: the query of call i answers,
\* with rows or with an error.
loadFinish(i, ok) ==
  /\ i \in 1..Len(loads)
  /\ ~loads[i].done
  /\ loads' = [loads EXCEPT ![i].done = TRUE, ![i].failed = ~ok]
  /\ industryStore' =
       IF ok THEN [industryStore EXCEPT !.subscriptions = rowsFor(loads[i].user),
                                        !.loading = FALSE]
             ELSE [industryStore EXCEPT !.loading = FALSE, !.error = TRUE]
  /\ lastOp' = Op("loadFinish", loads[i].user, i)
  /\ ret' = JsUndefined
  /\ UNCHANGED <<storeVars, localStorage, role, now, authoritative, storage,
                 auth, saEnv>>

\* rows of the account for 'automotive' when the application starts
IndustryRows ==
  { [tier |-> "free", status |-> "active"],
    [tier |-> "premium", status |-> "active"],
    [tier |-> "basic", status |-> "cancelled"] }

IndustryInit ==
  /\ localStorage = Null
  /\ storage = "ok"
  /\ StoreFrom(getStored(localStorage))
  /\ role = "user"
  /\ now = QueryNow
  /\ authoritative \in IndustryRows
  /\ auth = SignedOut
  /\ saEnv = JsUndefinedArg
  /\ industryStore = IndustryStoreInit
  /\ loads = <<>>
  /\ lastOp = Op("init", "", 0)
  /\ ret = JsUndefined

IndustryNext ==
  \/ \E u \in UserIds \cup {""} : loadStart(u)
  \/ \E i \in 1..MaxLoads, ok \in BOOLEAN : loadFinish(i, ok)
  \/ \E l \in SubscriptionLists : setSubscriptions(l)
  \/ \E t \in {"standard", "enterprise"} : createPendingSubscription(t)
  \/ activateSubscription
  \/ \E ind \in IndustryInputs, n \in 1..Len(RequiredTierInputs) :
       hasIndustryAccess(ind, n)

IndustrySpec == IndustryInit /\ [][IndustryNext]_vars


\* ================================================================ properties
\* The trial has run out: status 'trialing' and trialEndsAt earlier than now.
ExpiredTrial ==
  /\ status = "trialing"
  /\ trialEndsAt # Null
  /\ DateParse(trialEndsAt) < now

\* C1: for a non-superadmin, a hasFeature or hasTier call made while the trial
\* has run out leaves the store in the downgraded state: buyers on 'basic' with
\* status 'trial_expired', the others on 'start' with status 'active';
\* trialEndsAt null, overrides empty, promoCode null, billingPeriod 'monthly'.
C1_LazyDowngrade ==
  [][ ( /\ role # "superadmin"
        /\ ExpiredTrial
        /\ lastOp'.name \in {"hasFeature", "hasTier"} )
      => ( /\ status' # "trialing"
           /\ planId' = (IF accountType = "buyer" THEN "basic" ELSE "start")
           /\ status' = (IF accountType = "buyer" THEN "trial_expired" ELSE "active")
           /\ accountType' = accountType
           /\ trialEndsAt' = Null
           /\ overrides' = Null
           /\ promoCode' = Null
           /\ billingPeriod' = "monthly" ) ]_vars

\* A buyer's hasFeature call has just found the trial run out and downgraded.
C1_Witness ==
  /\ lastOp = Op("hasFeature", "basicDashboard", 0)
  /\ ret = JsBool(FALSE)
  /\ role = "user"
  /\ accountType = "buyer"
  /\ planId = "basic"
  /\ status = "trial_expired"
  /\ trialEndsAt = Null
  /\ billingPeriod = "monthly"

\* C2: a hasFeature call that triggers the lazy downgrade returns what
\* hasFeature gives on the state after the downgrade.
C2_AnswerFromPostState ==
  [][ ( /\ role # "superadmin"
        /\ ExpiredTrial
        /\ lastOp'.name = "hasFeature" )
      => ret' = (IF status' \in {"trial_expired", "canceled"}
                   THEN restrictedAnswer(lastOp'.key)
                   ELSE planAnswer(overrides', planId', accountType', lastOp'.key))
    ]_vars

\* C3: for a non-superadmin whose trial has run out, withinLimit decides from
\* the limits of the plan the downgrade falls back to.
C3_LimitFromFallbackPlan ==
  [][ ( /\ role # "superadmin"
        /\ ExpiredTrial
        /\ lastOp'.name = "withinLimit" )
      => LET fallbackPlan == IF accountType = "buyer" THEN "basic" ELSE "start"
             max == Get(getEffectiveLimits(fallbackPlan, accountType), lastOp'.key)
         IN ret' = JsBool(\/ max = JsUndefined
                          \/ max = JsInfinity
                          \/ lastOp'.n < max.n)
    ]_vars

\* The plan of the catalog that stands at the tier of the authoritative row.
AuthoritativePlanId ==
  PLANS[CHOOSE i \in 1..Len(PLANS) :
          PLANS[i].tier = TIER_LEVELS[authoritative.tier]].id

\* C4: a non-superadmin is granted a feature or a tier only if the plan of the
\* authoritative subscription row grants it too.
C4_NoGrantBeyondAuthoritative ==
  (role # "superadmin" /\ ret = JsBool(TRUE))
    => /\ lastOp.name = "hasFeature"
            => Get(getEffectiveLimits(AuthoritativePlanId, accountType), lastOp.key)
                 = JsBool(TRUE)
       /\ lastOp.name = "hasTier"
            => TIER_LEVELS[authoritative.tier] >= lastOp.n

C6_OverridesThenLimits ==
  [][ ( /\ role # "superadmin"
        /\ ~ExpiredTrial
        /\ status \notin {"trial_expired", "canceled"}
        /\ lastOp'.name = "hasFeature" )
      => LET k == lastOp'.key
             limits == getEffectiveLimits(planId, accountType)
         IN ret' = (IF k \in DOMAIN overrides THEN JsBool(overrides[k])
                    ELSE IF k \in DOMAIN limits THEN limits[k]
                    ELSE JsBool(FALSE))
    ]_vars

\* An override has just denied a feature that the plan grants.
C6_Witness ==
  /\ lastOp = Op("hasFeature", "basicDashboard", 0)
  /\ ret = JsBool(FALSE)
  /\ role = "user"
  /\ status = "past_due"
  /\ planId = "premium"
  /\ "basicDashboard" \in DOMAIN overrides
  /\ ~overrides["basicDashboard"]

\* C7: for a non-superadmin, withinLimit(key, n) is true when the effective
\* limit of key is absent or unbounded, and otherwise iff n is strictly less
\* than the limit.
C7_WithinLimit ==
  [][ ( /\ role # "superadmin"
        /\ lastOp'.name = "withinLimit" )
      => LET k == lastOp'.key
             limits == getEffectiveLimits(planId, accountType)
         IN ret' = JsBool(\/ k \notin DOMAIN limits
                          \/ limits[k] = JsInfinity
                          \/ lastOp'.n < limits[k].n)
    ]_vars

\* A seller on the start plan has just been refused a fourth project.
C7_Witness ==
  /\ lastOp = Op("withinLimit", "maxProjects", 3)
  /\ ret = JsBool(FALSE)
  /\ role = "user"
  /\ status = "active"
  /\ planId = "start"
  /\ accountType = "seller"

\* C8: for a non-superadmin, hasTier(r) is (0 >= r) when the status is
\* 'trial_expired' or 'canceled' or the trial has run out, and otherwise
\* getTierLevel(planId) >= r.
C8_HasTier ==
  [][ ( /\ role # "superadmin"
        /\ lastOp'.name = "hasTier" )
      => ret' = JsBool(IF status \in {"trial_expired", "canceled"} \/ ExpiredTrial
                         THEN 0 >= lastOp'.n
                         ELSE getTierLevel(planId) >= lastOp'.n)
    ]_vars

\* A buyer holding 'basic' in status 'trial_expired' has just failed hasTier(1).
C8_Witness ==
  /\ lastOp = Op("hasTier", "", 1)
  /\ ret = JsBool(FALSE)
  /\ role = "user"
  /\ accountType = "buyer"
  /\ status = "trial_expired"
  /\ planId = "basic"
  /\ billingPeriod = "annual"

\* C9: for a superadmin, hasFeature, hasTier and withinLimit return true and
\* leave the store and the persisted record as they were.
C9_SuperadminBypass ==
  [][ ( /\ role = "superadmin"
        /\ lastOp'.name \in {"hasFeature", "hasTier", "withinLimit"} )
      => ( /\ ret' = JsBool(TRUE)
           /\ UNCHANGED <<storeVars, localStorage>> ) ]_vars

\* A superadmin on the free plan, the trial run out, was granted auditManagement.
C9_Witness ==
  /\ lastOp = Op("hasFeature", "auditManagement", 0)
  /\ ret = JsBool(TRUE)
  /\ role = "superadmin"
  /\ planId = "start"
  /\ ExpiredTrial

\* C10: in every reachable state, status 'trialing' comes with a trialEndsAt.
C10_TrialingHasEnd == status = "trialing" => trialEndsAt # Null

C12_Cases ==
  { [input |-> PromoKeyInputs[1], code |-> STREFEX \o <<"3", "0">>,
     planId |-> "basic", days |-> 30],
    [input |-> PromoKeyInputs[2], code |-> STREFEX \o <<"6", "0">>,
     planId |-> "basic", days |-> 60],
    [input |-> PromoKeyInputs[3], code |-> STREFEX \o <<"9", "0">>,
     planId |-> "basic", days |-> 90],
    [input |-> PromoKeyInputs[4], code |-> STREFEX \o <<"P", "R", "O">>,
     planId |-> "standard", days |-> 30],
    [input |-> PromoKeyInputs[5], code |-> STREFEX \o <<"P", "R", "O", "6", "0">>,
     planId |-> "standard", days |-> 60],
    [input |-> PromoKeyInputs[6], code |-> STREFEX \o <<"P", "R", "E", "M">>,
     planId |-> "premium", days |-> 30],
    [input |-> PromoKeyInputs[7], code |-> STREFEX \o <<"V", "I", "P">>,
     planId |-> "premium", days |-> 90] }

\* C12: applyPromoCode of an input whose trimmed, upper-cased form is a key of
\* the promo table returns true and gives planId = the promo's plan, status
\* 'trialing', trialEndsAt = now + the promo's days, promoCode = the normalised
\* code, leaving accountType, billingPeriod and overrides as they were.
C12_PromoApplied ==
  [][ \A c \in C12_Cases :
        (lastOp'.name = "applyPromoCode" /\ applyPromoCode(c.input))
          => ( /\ ret' = JsBool(TRUE)
               /\ planId' = c.planId
               /\ status' = "trialing"
               /\ trialEndsAt' = toISOString(now + c.days * Day)
               /\ promoCode' = c.code
               /\ UNCHANGED <<accountType, billingPeriod, overrides>> ) ]_vars

\* A canceled seller with overrides has just applied 'strefexVIP'.
C12_Witness ==
  /\ lastOp.name = "applyPromoCode"
  /\ ret = JsBool(TRUE)
  /\ promoCode = STREFEX \o <<"V", "I", "P">>
  /\ planId = "premium"
  /\ status = "trialing"
  /\ trialEndsAt = toISOString(QueryNow + 90 * Day)
  /\ accountType = "seller"
  /\ overrides # Null

\* C13: applyPromoCode of an input whose trimmed, upper-cased form is not a
\* key of the promo table (the empty string, blanks, null and undefined
\* included) returns false and leaves the store and the persisted record as
\* they were.
C13_PromoRefused ==
  [][ \A c \in PromoOtherInputs \cup {PromoKeyInputs[i] : i \in 1..Len(PromoKeyInputs)} :
        ( /\ lastOp'.name = "applyPromoCode"
          /\ toUpperCase(trim(OrEmpty(c)))
               \notin {PROMO_CODES[i].code : i \in 1..Len(PROMO_CODES)}
          /\ applyPromoCode(c) )
          => ( /\ ret' = JsBool(FALSE)
               /\ UNCHANGED <<storeVars, localStorage>> ) ]_vars

\* A trialing enterprise account has just been refused the code 'STREFEX'.
C13_Witness ==
  /\ lastOp = Op("applyPromoCode", "", 7)
  /\ ret = JsBool(FALSE)
  /\ status = "trialing"
  /\ planId = "enterprise"
  /\ promoCode = Null

\* C14: for a buyer whose trial has run out, hasFeature(k) for a key outside
\* {basicDashboard, companyProfile} moves the store to planId 'basic' with
\* status 'trial_expired' and returns false.
C14_ExpiredBuyerRefused ==
  [][ ( /\ role # "superadmin"
        /\ accountType = "buyer"
        /\ ExpiredTrial
        /\ lastOp'.name = "hasFeature"
        /\ lastOp'.key \notin {"basicDashboard", "companyProfile"} )
      => ( /\ planId' = "basic"
           /\ status' = "trial_expired"
           /\ ret' = JsBool(FALSE) ) ]_vars

\* A buyer's expired trial has just been ended by hasFeature('multipleIndustries').
C14_Witness ==
  /\ lastOp = Op("hasFeature", "multipleIndustries", 0)
  /\ ret = JsBool(FALSE)
  /\ role = "user"
  /\ accountType = "buyer"
  /\ planId = "basic"
  /\ status = "trial_expired"
  /\ trialEndsAt = Null
  /\ promoCode = Null
  /\ overrides = Null
  /\ billingPeriod = "monthly"

\* C15: a trial reverts at expiry: once a non-superadmin's trial has run out,
\* and the pages keep issuing entitlement queries with no transition in
\* between, eventually the status is no longer 'trialing' and the plan is the
\* fallback plan of the account type.
C15_TrialReverts ==
  (role # "superadmin" /\ ExpiredTrial)
    ~> ( /\ status # "trialing"
         /\ planId = (IF accountType = "buyer" THEN "basic" ELSE "start") )

\* C16: a buyer account that registers, by whichever path, starts with status
\* 'trialing' on planId 'basic' with accountType 'buyer' and trialEndsAt =
\* the time of registration + 30 days; a seller or service provider starts
\* with status 'active' on the 'start' plan.
C16_RegistrationStart ==
  [][ lastOp'.name \in {"register", "handleGoogleSignup"}
      => IF lastOp'.key = "buyer"
           THEN /\ status' = "trialing"
                /\ planId' = "basic"
                /\ accountType' = "buyer"
                /\ trialEndsAt' = toISOString(now + 30 * Day)
           ELSE /\ status' = "active"
                /\ planId' = "start" ]_vars

\* C17: in every reachable state, accountType 'buyer' implies that planId is
\* not the free 'start' plan.
C17_BuyerNeverOnStart == accountType = "buyer" => planId # "start"

\* C18: after a session restore (initSession, or a login with a valid
\* session) the plan and the status of the store are those of the
\* authoritative subscription row.
C18_RestoreReconciles ==
  [][ lastOp'.name \in {"initSession", "loginWithEmail"}
      => ( /\ getTierLevel(planId') = TIER_LEVELS[authoritative'.tier]
           /\ planId' \in CatalogIds
           /\ status' = authoritative'.status ) ]_vars

\* C19: startTrial() applied to any state gives planId 'enterprise', status
\* 'trialing' and trialEndsAt = now + 14 days, and leaves accountType,
\* billingPeriod, overrides and promoCode as they were.
C19_StartTrial ==
  [][ lastOp'.name = "startTrial"
      => ( /\ planId' = "enterprise"
           /\ status' = "trialing"
           /\ trialEndsAt' = toISOString(now + 14 * Day)
           /\ UNCHANGED <<accountType, billingPeriod, overrides, promoCode>> )
    ]_vars

\* A buyer whose promo trial had ended has just started the enterprise trial.
C19_Witness ==
  /\ lastOp.name = "startTrial"
  /\ planId = "enterprise"
  /\ status = "trialing"
  /\ trialEndsAt = toISOString(QueryNow + 14 * Day)
  /\ accountType = "buyer"
  /\ promoCode # Null
  /\ overrides # Null
  /\ billingPeriod = "annual"

\* C20: startBuyerTrial(days) applied to any state gives planId 'basic',
\* status 'trialing', accountType 'buyer' and trialEndsAt = now + days, where
\* days is 30 when the argument is omitted.
C20_StartBuyerTrial ==
  [][ \A d \in BuyerTrialDayInputs :
        (lastOp'.name = "startBuyerTrial" /\ startBuyerTrial(d))
          => ( /\ planId' = "basic"
               /\ status' = "trialing"
               /\ accountType' = "buyer"
               /\ trialEndsAt'
                    = toISOString(now + (IF d = JsUndefined THEN 30 ELSE d.n) * Day)
             ) ]_vars

\* startBuyerTrial(7) has just put an account on a week of buyer trial.
C20_Witness ==
  /\ lastOp = Op("startBuyerTrial", "", 7)
  /\ planId = "basic"
  /\ status = "trialing"
  /\ accountType = "buyer"
  /\ trialEndsAt = toISOString(QueryNow + 7 * Day)
  /\ localStorage.accountType = "buyer"

\* C21: extendTrial(extraDays) sets trialEndsAt to the old trialEndsAt +
\* extraDays when the old one is strictly later than now, and to now +
\* extraDays when it is null or not later than now; it sets status 'trialing'
\* whatever the status was and leaves planId, accountType, billingPeriod,
\* overrides and promoCode as they were.
C21_ExtendTrial ==
  [][ lastOp'.name = "extendTrial"
      => ( /\ trialEndsAt'
                = (IF trialEndsAt # Null /\ DateParse(trialEndsAt) > now
                     THEN toISOString(DateParse(trialEndsAt) + lastOp'.n * Day)
                     ELSE toISOString(now + lastOp'.n * Day))
           /\ status' = "trialing"
           /\ UNCHANGED <<planId, accountType, billingPeriod, overrides, promoCode>> )
    ]_vars

\* A trial with half a day left has just been extended by 14 days.
C21_Witness ==
  /\ lastOp = Op("extendTrial", "", 14)
  /\ status = "trialing"
  /\ trialEndsAt = toISOString(QueryNow + Day \div 2 + 14 * Day)
  /\ planId = "standard"
  /\ accountType = "buyer"
  /\ promoCode # Null

\* C22: the setters never run the expiry check: on a state whose trial has
\* run out, setAccountType, setBillingPeriod and setOverrides change only their
\* own field and leave status 'trialing'; setPlan changes only planId, status
\* and trialEndsAt.
C22_SettersFrame ==
  [][ ExpiredTrial
      => ( /\ lastOp'.name = "setAccountType"
                => ( /\ accountType' = lastOp'.key
                     /\ status' = "trialing"
                     /\ UNCHANGED <<planId, status, trialEndsAt, billingPeriod,
                                    overrides, promoCode>> )
           /\ lastOp'.name = "setBillingPeriod"
                => ( /\ billingPeriod' = lastOp'.key
                     /\ status' = "trialing"
                     /\ UNCHANGED <<planId, status, trialEndsAt, accountType,
                                    overrides, promoCode>> )
           /\ lastOp'.name = "setOverrides"
                => ( /\ overrides' \in OverrideInputs
                     /\ status' = "trialing"
                     /\ UNCHANGED <<planId, status, trialEndsAt, accountType,
                                    billingPeriod, promoCode>> )
           /\ lastOp'.name = "setPlan"
                => ( /\ planId' = lastOp'.key
                     /\ UNCHANGED <<accountType, billingPeriod, overrides,
                                    promoCode>> ) ) ]_vars

\* setAccountType('seller') has just been called on a buyer's expired premium
\* trial, which is still 'trialing'.
C22_Witness ==
  /\ lastOp = Op("setAccountType", "seller", 0)
  /\ accountType = "seller"
  /\ localStorage.accountType = "seller"
  /\ planId = "premium"
  /\ ExpiredTrial

\* C23: isTrial() answers true exactly when status is 'trialing' and
\* trialEndsAt is non-null and strictly later than now; it never changes the
\* state, also when the trial it reports on has run out.
C23_IsTrial ==
  [][ lastOp'.name = "isTrial"
      => ( /\ ret' = JsBool(/\ status = "trialing"
                            /\ trialEndsAt # Null
                            /\ DateParse(trialEndsAt) > now)
           /\ UNCHANGED <<storeVars, localStorage>> ) ]_vars

\* isTrial() has just answered false for a trial that ends at this very
\* instant, and the state is still 'trialing' on the trial plan.
C23_Witness ==
  /\ lastOp.name = "isTrial"
  /\ ret = JsBool(FALSE)
  /\ status = "trialing"
  /\ planId = "premium"
  /\ trialEndsAt # Null
  /\ DateParse(trialEndsAt) = now

\* C24: trialDaysLeft() returns 0 when status is not 'trialing', when
\* trialEndsAt is null or when it is not later than now; otherwise the least
\* whole number of days that covers trialEndsAt - now. The result is never
\* negative and the call never changes the state.
C24_TrialDaysLeft ==
  [][ lastOp'.name = "trialDaysLeft"
      => ( /\ ret'.n >= 0
           /\ IF \/ status # "trialing"
                 \/ trialEndsAt = Null
                 \/ DateParse(trialEndsAt) <= now
                THEN ret' = JsNum(0)
                ELSE /\ ret'.n * Day >= DateParse(trialEndsAt) - now
                     /\ (ret'.n - 1) * Day < DateParse(trialEndsAt) - now
           /\ UNCHANGED <<storeVars, localStorage>> ) ]_vars

\* trialDaysLeft() has just rounded a remainder that is not a whole number of
\* days up to the next day.
C24_Witness ==
  /\ lastOp.name = "trialDaysLeft"
  /\ status = "trialing"
  /\ trialEndsAt # Null
  /\ (DateParse(trialEndsAt) - now) % Day # 0
  /\ DateParse(trialEndsAt) - now > Day
  /\ ret = JsNum(((DateParse(trialEndsAt) - now) \div Day) + 1)

\* The fields of the in-memory state that a written record holds.
InMemory(item) ==
  [f \in DOMAIN item |->
     CASE f = "planId" -> planId
       [] f = "status" -> status
       [] f = "trialEndsAt" -> trialEndsAt
       [] f = "accountType" -> accountType
       [] f = "billingPeriod" -> billingPeriod
       [] f = "overrides" -> overrides
       [] f = "promoCode" -> promoCode]

\* The transitions that write on every call.
MutatingOps ==
  {"setPlan", "setAccountType", "setBillingPeriod", "startTrial",
   "startBuyerTrial", "extendTrial", "downgrade", "setOverrides"}

\* A failed or corrupt read at startup leaves the store on its defaults.
StartupDefaults ==
  /\ lastOp.name = "init"
  /\ storage = "denied" \/ localStorage = MalformedItem
  => planId = "start" /\ accountType = "seller" /\ status = "active"

\* Whatever the storage does, a call of a writing transition completes.
TransitionsComplete ==
  lastOp.name = "init"
          => /\ \A p \in SetPlanIds : ENABLED setPlan(p, "active", Null)
             /\ \A a \in AccountTypes : ENABLED setAccountType(a)
             /\ \A b \in BillingInputs : ENABLED setBillingPeriod(b)
             /\ ENABLED startTrial
             /\ ENABLED startBuyerTrial(JsUndefined)
             /\ \A d \in ExtendDayInputs : ENABLED extendTrial(d)
             /\ ENABLED downgrade
             /\ \A o \in OverrideInputs : ENABLED setOverrides(o)
             /\ ENABLED hasFeature("multipleIndustries")

PatchOf(id, acct) ==
  CASE acct = "buyer" /\ id \in DOMAIN BUYER_LIMIT_OVERRIDES
         -> BUYER_LIMIT_OVERRIDES[id]
    [] acct = "service_provider" /\ id \in DOMAIN SERVICE_PROVIDER_LIMIT_OVERRIDES
         -> SERVICE_PROVIDER_LIMIT_OVERRIDES[id]
    [] OTHER -> EmptyObject

\* C27: getEffectiveLimits merges key by key, the later source winning, and
\* has no side effect: for 'buyer' and 'service_provider' every key of the
\* patch for planId takes the patch value and every other key keeps the base
\* plan's value (apart from executiveSummary, forced to false for service
\* providers and sellers); the result depends on planId and accountType
\* alone and the call leaves the store and the stored item as they were.
C27_EffectiveLimitsMerge ==
  [][ lastOp'.name = "getEffectiveLimits"
      => LET base == getPlanById(planId).limits
             patch == PatchOf(planId, accountType)
         IN
         /\ DOMAIN ret' = DOMAIN base \cup DOMAIN patch
         /\ \A k \in DOMAIN ret' :
              ret'[k] = IF k = "executiveSummary" /\ accountType # "buyer"
                          THEN JsBool(FALSE)
                        ELSE IF k \in DOMAIN patch THEN patch[k]
                        ELSE base[k]
         /\ UNCHANGED <<storeVars, localStorage>> ]_vars

\* The effective limits of a buyer on 'basic' have just been computed: the
\* patch restricts the industries to one where the base plan allows more,
\* and the number of projects is the base plan's.
C27_Witness ==
  /\ lastOp = Op("getEffectiveLimits", "basic", 0)
  /\ accountType = "buyer"
  /\ ret["maxIndustries"] = JsNum(1)
  /\ getPlanById("basic").limits["maxIndustries"] # JsNum(1)
  /\ ret["multipleIndustries"] = JsBool(FALSE)
  /\ getPlanById("basic").limits["multipleIndustries"] = JsBool(TRUE)
  /\ ret["maxProjects"] = getPlanById("basic").limits["maxProjects"]

\* Where the plan with this id stands in the catalog.
CatalogIndex(id) == CHOOSE i \in 1..Len(PLANS) : PLANS[i].id = id

\* C28: getPlansForAccountType('buyer') holds no seller-only plan (so not
\* 'start') and every other plan; for every other account type it returns
\* all plans, 'start' included; the result is in catalog order, strictly
\* ascending in tier.
C28_PlansForAccountType ==
  [][ lastOp'.name = "getPlansForAccountType"
      => LET ids == {ret'[i].id : i \in 1..Len(ret')} IN
         /\ IF lastOp'.key = "buyer"
              THEN /\ "start" \notin ids
                   /\ \A i \in 1..Len(PLANS) :
                        PLANS[i].id \in ids <=> ~PLANS[i].sellerOnly
              ELSE /\ "start" \in ids
                   /\ ids = CatalogIds
         /\ Len(ret') = Cardinality(ids)
         /\ \A i \in 1..Len(ret') : ret'[i] = PLANS[CatalogIndex(ret'[i].id)]
         /\ \A i, j \in 1..Len(ret') :
              i < j => /\ CatalogIndex(ret'[i].id) < CatalogIndex(ret'[j].id)
                       /\ ret'[i].tier < ret'[j].tier ]_vars

\* The plans offered to a buyer have just been listed: four plans, the
\* first of them 'basic'.
C28_Witness ==
  /\ lastOp = Op("getPlansForAccountType", "buyer", 0)
  /\ Len(ret) = 4
  /\ ret[1].id = "basic"
  /\ ret[4].id = "enterprise"

\* C29: the tier order is total and strict:
\* getTierLevel start < basic < standard < premium < enterprise.
C29_TierOrder ==
  /\ getTierLevel("start") < getTierLevel("basic")
  /\ getTierLevel("basic") < getTierLevel("standard")
  /\ getTierLevel("standard") < getTierLevel("premium")
  /\ getTierLevel("premium") < getTierLevel("enterprise")
  /\ lastOp.name = "getTier" /\ planId \in CatalogIds
       => ret = JsNum(Cardinality({id \in CatalogIds :
                                     getTierLevel(id) < getTierLevel(planId)}))

\* getTier() has just answered 4 on the enterprise plan.
C29_Witness ==
  /\ lastOp = Op("getTier", "enterprise", 0)
  /\ planId = "enterprise"
  /\ ret = JsNum(4)

\* C30: lookups of a plan id that is not in the catalog never fail:
\* getPlanById gives the 'start' plan, getTierLevel gives 0 and
\* getEffectiveLimits gives limits derived from 'start' for every account
\* type, so a state holding an unknown planId is entitled to no more than
\* the free tier: a limit query it passes is passed on 'start' as well.
C30_UnknownPlanFreeTier ==
  [][ planId \notin CatalogIds
      => /\ getPlanById(planId) = getPlanById("start")
         /\ getTierLevel(planId) = 0
         /\ ( /\ lastOp'.name = "withinLimit"
              /\ role # "superadmin"
              /\ ret' = JsBool(TRUE) )
            => LET max == Get(getEffectiveLimits("start", accountType),
                              lastOp'.key)
               IN \/ max = JsUndefined
                  \/ max = JsInfinity
                  \/ JsLess(lastOp'.n, max) ]_vars

\* C31: the superadmin role belongs to the configured superadmin email
\* alone: whatever path established the session, the role the auth store
\* holds is 'superadmin' only if the session's email is the configured one;
\* a profile or backend response that carries 'superadmin' for another email
\* is stored as 'admin'; with no email configured no session is superadmin.
C31_SuperadminOnlyByEmail ==
  /\ [] ( role = "superadmin"
          => /\ toLowerCase(trim(OrEmpty(saEnv))) # <<>>
             /\ auth.email \notin {Null, JsUndefinedArg}
             /\ toLowerCase(trim(auth.email)) = toLowerCase(trim(saEnv)) )
  /\ [][ /\ lastOp'.name \in {"storeSession", "storeSupabaseSession"}
         /\ lastOp'.key = "superadmin"
         /\ role' # "superadmin"
         => role' = "admin" ]_vars

\* A backend response carrying 'superadmin' for another account's email has
\* just been stored as 'admin' while a superadmin email is configured.
C31_Witness ==
  /\ lastOp = Op("storeSession", "superadmin", 0)
  /\ auth.email = <<"u", "@", "x">>
  /\ role = "admin"
  /\ toLowerCase(trim(OrEmpty(saEnv))) = <<"s", "a", "@", "x">>

\* The order of the roles a route may require: admin > manager > user; the
\* superadmin stands above them, a session without a role below.
RoleLevel(r) ==
  CASE r = "superadmin" -> 4
    [] r = "admin" -> 3
    [] r = "manager" -> 2
    [] r = "user" -> 1
    [] OTHER -> 0

\* C32: ProtectedRoute renders its children only when the session is
\* authenticated, not expired and, when requiredRole is given, the role is
\* at least requiredRole; an authenticated user whose role is too low gets
\* the 403 outcome, not the children; an expired session is logged out and
\* sent to /login.
C32_ProtectedRoute ==
  [][ lastOp'.name = "ProtectedRoute"
      => LET expired == /\ auth.isAuthenticated
                        /\ auth.expiresAt # NoExpiry
                        /\ now > auth.expiresAt
         IN
         /\ ret' = "children"
              <=> /\ auth.isAuthenticated
                  /\ ~expired
                  /\ \/ lastOp'.key = NoRole
                     \/ RoleLevel(role) >= RoleLevel(lastOp'.key)
         /\ expired => /\ ~auth'.isAuthenticated
                       /\ ret' = "Navigate /login" ]_vars

\* C33: logging in never changes an existing subscription: when
\* loginWithEmail materializes the free tier for a user registered with tier
\* 'free', the row that already exists for the user and industry keeps its
\* tier and status.
C33_LoginKeepsSubscription ==
  [][ lastOp'.name = "loginWithEmail"
      => /\ authoritative'.tier = authoritative.tier
         /\ authoritative'.status = authoritative.status ]_vars

\* C34: hasIndustryAccess(industry, requiredTier) answers true exactly when
\* the store holds a subscription for that industry whose status is 'active'
\* and whose tier is at least the required one on the scale free 0 < basic 1
\* < standard 2 < premium 3 < enterprise 4; a tier name outside the scale,
\* held or required, never grants; and after a load that found the account's
\* subscription not active (pending, cancelled) the store holds no
\* subscription for its industry.
C34_Scale ==
  [free |-> 0, basic |-> 1, standard |-> 2, premium |-> 3, enterprise |-> 4]
C34_IndustryAccess ==
  [][ /\ lastOp'.name = "hasIndustryAccess"
        => LET subs == industryStore.subscriptions
               arg == RequiredTierInputs[lastOp'.n]
               req == IF arg = "<undefined>" THEN "free" ELSE arg
           IN (ret' = JsBool(TRUE))
              <=> \E i \in 1..Len(subs) :
                    /\ subs[i].industry = lastOp'.key
                    /\ subs[i].status = "active"
                    /\ subs[i].tier \in DOMAIN C34_Scale
                    /\ req \in DOMAIN C34_Scale
                    /\ C34_Scale[subs[i].tier] >= C34_Scale[req]
      /\ ( /\ lastOp'.name = "loadFinish"
           /\ lastOp'.key = "u1"
           /\ ~loads'[lastOp'.n].failed
           /\ authoritative.status # "active" )
        => \A i \in 1..Len(industryStore'.subscriptions) :
             industryStore'.subscriptions[i].industry # "automotive" ]_vars
C34_Witness ==
  /\ lastOp = Op("hasIndustryAccess", "automotive", 4)
  /\ ret = JsBool(TRUE)
  /\ authoritative = [tier |-> "enterprise", status |-> "active"]

\* C35: whatever the interleaving of overlapping loadActiveSubscriptions
\* calls, loading is true exactly while at least one of them is in flight,
\* and when the last of them finishes (none having failed) the list is the
\* result of the call that was started last.
C35_OverlappingLoads ==
  /\ [] ( industryStore.loading
          <=> \E i \in 1..Len(loads) : ~loads[i].done )
  /\ [][ ( /\ lastOp'.name = "loadFinish"
           /\ \A i \in 1..Len(loads') : loads'[i].done /\ ~loads'[i].failed )
         => industryStore'.subscriptions
              = (IF loads'[Len(loads')].user = "u1"
                   THEN (IF authoritative.status = "active"
                           THEN << [industry |-> "automotive",
                                    tier |-> authoritative.tier,
                                    status |-> "active"] >>
                           ELSE <<>>)
                   ELSE OtherUserRows) ]_vars

\* C36: after every mutating transition whose write succeeds, the record in
\* localStorage agrees with the in-memory state on all seven fields (planId,
\* status, trialEndsAt, accountType, billingPeriod, overrides, promoCode), so
\* that building the store from it again reproduces the state.
C36_PersistedEqualsMemory ==
  [][ ( /\ \/ lastOp'.name \in MutatingOps
           \/ lastOp'.name = "applyPromoCode" /\ ret' = JsBool(TRUE)
        /\ storage = "ok" )
      => LET item == getStored(localStorage') IN
         /\ planId' = StoredOr(item, "planId", "start")
         /\ status' = StoredOr(item, "status", "active")
         /\ trialEndsAt' = StoredOr(item, "trialEndsAt", Null)
         /\ accountType' = StoredOr(item, "accountType", "seller")
         /\ billingPeriod' = StoredOr(item, "billingPeriod", "monthly")
         /\ overrides' = StoredOr(item, "overrides", Null)
         /\ promoCode' = StoredOr(item, "promoCode", Null) ]_vars

\* Limit value q is at least limit value p: a true flag stays true, a number
\* does not drop, Infinity is the greatest number.
C37_AtLeast(q, p) ==
  CASE p.kind = "boolean" -> (p.b => q.kind = "boolean" /\ q.b)
    [] p.kind = "infinity" -> q.kind = "infinity"
    [] p.kind = "number" -> q.kind = "infinity"
                            \/ (q.kind = "number" /\ q.n >= p.n)
    [] OTHER -> TRUE

\* C37: entitlements never shrink when the tier rises: for every account
\* type and every two plans P, Q of the catalog with tier(P) < tier(Q), each
\* flag that is true in getEffectiveLimits(P, accountType) is true in
\* getEffectiveLimits(Q, accountType), and each numeric limit of Q is at
\* least that of P.
C37_EntitlementsMonotone ==
  [][ lastOp'.name = "getEffectiveLimits" /\ lastOp'.key \in CatalogIds
      => \A Q \in CatalogIds :
           getTierLevel(lastOp'.key) < getTierLevel(Q)
           => \A k \in DOMAIN ret' :
                LET other == getEffectiveLimits(Q, accountType) IN
                /\ k \in DOMAIN other
                /\ C37_AtLeast(other[k], ret'[k]) ]_vars

C37_Witness ==
  /\ lastOp = Op("getEffectiveLimits", "basic", 0)
  /\ accountType = "buyer"
  /\ ret["maxIndustries"] = JsNum(1)
  /\ getEffectiveLimits("standard", "buyer")["maxIndustries"] = JsNum(3)
  /\ getTierLevel("basic") < getTierLevel("standard")

\* trialDaysLeft() and isTrial(), asked in the current state at the current
\* time, agree: the one is positive exactly when the other is true.
C38_Agree ==
  ENABLED (trialDaysLeft /\ ret'.n > 0) <=> ENABLED (isTrial /\ ret' = JsBool(TRUE))

\* C38: in every state and at every time trialDaysLeft() > 0 exactly when
\* isTrial() is true; and right after extendTrial(d) with d >= 1, isTrial()
\* is true, trialDaysLeft() is at least d, and trialEndsAt is not earlier
\* than it was before the call.
C38_TrialQueriesAgree ==
  /\ []C38_Agree
  /\ [] ( lastOp.name = "extendTrial" /\ lastOp.n >= 1
          => /\ ENABLED (isTrial /\ ret' = JsBool(TRUE))
             /\ ENABLED (trialDaysLeft /\ ret'.n >= lastOp.n) )
  /\ [][ lastOp'.name = "extendTrial" /\ lastOp'.n >= 1 /\ trialEndsAt # Null
         => DateParse(trialEndsAt') >= DateParse(trialEndsAt) ]_vars
\* A trial that ran out half a day ago has just been extended by one day.
C38_Witness ==
  /\ lastOp = Op("extendTrial", "", 1)
  /\ status = "trialing"
  /\ trialEndsAt = toISOString(QueryNow + Day)
  /\ localStorage.trialEndsAt = trialEndsAt
  /\ ENABLED (trialDaysLeft /\ ret' = JsNum(1))

====
